---- MODULE Spec2Model ----
(***************************************************************************)
(* Model of tensorpack/callbacks/group.py: the Callbacks container, the    *)
(* TestCallbackContext that lazily builds the test graph/session, and the  *)
(* CallbackTimeLogger used by _trigger_epoch.                              *)
(*                                                                         *)
(* The program is single threaded.  A lifecycle call of the driver is a    *)
(* loop over self.cbs; the model takes one step per loop iteration (and    *)
(* one for the lazy construction, one for the checkpoint restore), so that *)
(* the order of the invocations inside one call is observable.             *)
(***************************************************************************)
EXTENDS Integers, Sequences, FiniteSets, TLC

\* ---------------------------------------------------------------- bounds
MaxCbs == 3      \* longest callback list given to Callbacks(cbs)
MaxCalls == 3    \* lifecycle calls the driver makes on one group
MaxTot == 1      \* longest time one _trigger_epoch records, in clock ticks
                 \* (tenths of a second)

\* ------------------------------------------------------------- callbacks
\* A callback is opaque: its type tag, its class name, and whether its
\* trigger_epoch writes a checkpoint (a ModelSaver).
TrainCb == [type |-> "Train", name |-> "TrainCb", saves |-> FALSE]
ModelSaver == [type |-> "Train", name |-> "ModelSaver", saves |-> TRUE]
TestCb == [type |-> "Test", name |-> "TestCb", saves |-> FALSE]
OtherCb == [type |-> "Other", name |-> "OtherCb", saves |-> FALSE]
CallbackObjects == {TrainCb, ModelSaver, TestCb, OtherCb}

RECURSIVE SeqsUpTo(_, _)
SeqsUpTo(S, n) ==
    IF n = 0 THEN {<<>>}
    ELSE LET shorter == SeqsUpTo(S, n - 1)
         IN  shorter \cup {Append(s, x) : s \in {t \in shorter : Len(t) = n - 1}, x \in S}

\* ------------------------------------------------------ object identities
None == <<"None", 0>>
Graph(n) == <<"graph", n>>
Session(n) == <<"session", n>>
Saver(n) == <<"saver", n>>
\* the trainer's own graph and session, ambient when the driver calls in
PrimaryFrame == [graph |-> Graph(0), sess |-> Session(0)]

VARIABLES
    arg,        \* the list handed to Callbacks.__init__
    grp,        \* "none" | "ok" | "failed": outcome of Callbacks.__init__
    cbs,        \* self.cbs (<<>> while never assigned)
    ctx,        \* self.test_callback_context: [made, sess, graph, saver]
    closed,     \* sessions whose `with tf.Session()` scope has been left
    nextId,     \* next fresh object identity
    ambient,    \* stack of default (graph, session) frames
    ckpt,       \* newest checkpoint in logger.LOG_DIR (0: none); checkpoints
                \* are numbered in the order they are written
    loaded,     \* checkpoint loaded into the test session (0: none)
    pc,         \* lifecycle call in progress, "idle", or "hung": the call
                \* is inside a callback method that never returns
    i,          \* loop index into self.cbs
    restored,   \* test_sess_restored
    tm,         \* the CallbackTimeLogger of _trigger_epoch
    err,        \* what the last finished call raised ("none": returned)
    trace,      \* what the current (or last) call did, in order
    builds,     \* outcome of every construction attempt so far
    phase,      \* the lifecycle call started last ("none": none yet)
    calls,      \* number of lifecycle calls started
    logged      \* the lines tm.log() gave to logger.info in this call

vars == <<arg, grp, cbs, ctx, closed, nextId, ambient, ckpt, loaded, pc, i,
          restored, tm, err, trace, builds, phase, calls, logged>>

Top(st) == st[Len(st)]

\* ------------------------------------------------------------ trace events
Event(ev, idx, frame, out) ==
    [ev |-> ev, idx |-> idx, graph |-> frame.graph, sess |-> frame.sess,
     loaded |-> loaded, ckpt |-> ckpt, out |-> out]

\* -------------------------------------------------------- Callbacks.__init__
IsTrain(cb) == cb.type = "Train"
IsTest(cb) == cb.type = "Test"
\* isinstance(cb.type, (TrainCallbackType, TestCallbackType))
KnownType(cb) == IsTrain(cb) \/ IsTest(cb)
\* mutant: only the first callback is checked
AllKnownFirst(list) == Len(list) > 0 => KnownType(list[1])
\* the checking loop of __init__ raises at the first unknown type
AllKnown(list) == \A k \in 1..Len(list) : KnownType(list[k])

NoContext == [made |-> FALSE, sess |-> None, graph |-> None, saver |-> None]
\* TestCallbackContext.__init__: self.sess = None (graph and saver unset)
NewContext == [made |-> TRUE, sess |-> None, graph |-> None, saver |-> None]

EmptyTimer == [times |-> <<>>, tot |-> 0]

Init ==
    /\ arg \in SeqsUpTo(CallbackObjects, MaxCbs)
    /\ grp = "none"
    /\ cbs = <<>>
    /\ ctx = NoContext
    /\ closed = {}
    /\ nextId = 1
    /\ ambient = <<PrimaryFrame>>
    /\ ckpt \in {0, 1}     \* LOG_DIR is empty or holds an earlier run's checkpoint
    /\ loaded = 0
    /\ pc = "idle"
    /\ i = 0
    /\ restored = FALSE
    /\ tm = EmptyTimer
    /\ err = "none"
    /\ trace = <<>>
    /\ builds = <<>>
    /\ phase = "none"
    /\ calls = 0
    /\ logged = <<>>

Construct ==
    /\ grp = "none"
    /\ IF AllKnown(arg)
       THEN /\ grp' = "ok"
            /\ cbs' = arg
            /\ ctx' = NewContext
            /\ err' = "none"
       ELSE /\ grp' = "failed"
            /\ err' = "ValueError"
            /\ UNCHANGED <<cbs, ctx>>
    /\ UNCHANGED <<arg, closed, nextId, ambient, ckpt, loaded, pc, i, restored,
                   tm, trace, builds, phase, calls, logged>>

\* mutant: the time logger of the call before is kept
TimerKept(p) == tm
\* tm = CallbackTimeLogger() at the top of _trigger_epoch; the other
\* lifecycle methods have no time logger
TimerAtEntry(p) == IF p = "trigger_epoch" THEN EmptyTimer ELSE tm

\* ------------------------------------------------------------- the driver
\* The driver enters one of the four lifecycle methods of a constructed
\* group.  _trigger_epoch starts with tm = CallbackTimeLogger() and
\* test_sess_restored = False.
Enter(p) ==
    /\ grp = "ok"
    /\ pc = "idle"
    /\ calls < MaxCalls
    /\ pc' = p
    /\ phase' = p
    /\ i' = 1
    /\ trace' = <<>>
    /\ err' = "none"
    /\ calls' = calls + 1
    /\ restored' = FALSE
    /\ tm' = TimerAtEntry(p)
    /\ logged' = <<>>
    /\ UNCHANGED <<arg, grp, cbs, ctx, closed, nextId, ambient, ckpt, loaded, builds>>

CallBeforeTrain == Enter("before_train")
CallTriggerStep == Enter("trigger_step")
CallTriggerEpoch == Enter("trigger_epoch")
CallAfterTrain == Enter("after_train")

InLoop(p) == pc = p /\ i \in 1..Len(cbs)

\* an exception leaves the loop and the lifecycle method
Raise(e) == pc' = "idle" /\ err' = e /\ i' = i
\* the loop goes on with the next callback
Continue == pc' = pc /\ err' = err /\ i' = i + 1

\* the callback method never returns: the loop, and the driver, stay there
Hang == pc' = "hung" /\ err' = err /\ i' = i

\* what a collaborator call can do, and what a callback method can do
Outcomes == {"ok", "raise"}
CallbackOutcomes == {"ok", "raise", "stuck"}
\* the loop after cb.<method>() was called
Finish(out) ==
    IF out = "ok" THEN Continue
    ELSE IF out = "raise" THEN Raise("CallbackError")
    ELSE Hang
\* time.time() - s of a timed operation, within the time left to the call
Durations == 0..(MaxTot - tm.tot)

\* ----------------------------------------------------- default-context stack
\* graph.as_default() / sess.as_default(): push on entry, pop on exit
AsDefault(st, g, s) == Append(st, [graph |-> g, sess |-> s])
ExitScope(st) == SubSeq(st, 1, Len(st) - 1)

\* mutant: the session is not made the default one
EnterTestContextGraphOnly(st) ==
    AsDefault(AsDefault(st, ctx.graph, Top(st).sess), ctx.graph, Top(st).sess)
\* mutant: the graph is not made the default one
EnterTestContextSessOnly(st) ==
    AsDefault(AsDefault(st, Top(st).graph, Top(st).sess), Top(st).graph, ctx.sess)
\* with self.graph.as_default(), self.sess.as_default():
EnterTestContext(st) ==
    AsDefault(AsDefault(st, ctx.graph, Top(st).sess), ctx.graph, ctx.sess)
\* mutant: the defaults are put back only when the body returns
LeaveTestContextOnReturn(st, raised) ==
    IF raised THEN st ELSE ExitScope(ExitScope(st))
\* both with-items are exited when the body returns and when it raises (the
\* exception is thrown into the generator at its yield, inside the with)
LeaveTestContext(st, raised) == ExitScope(ExitScope(st))
\* the default stack once the body of the with has ended, if it ever does
AfterBody(st, out) ==
    IF out = "stuck" THEN st ELSE LeaveTestContext(st, out = "raise")

\* ------------------------------------------- create_test_session (lazy build)
\* One construction attempt of before_train_context (self.sess is None):
\*   create_test_graph: tf.Graph().as_default(), the global step variable,
\*                      model.get_input_vars(), model.get_cost(..)
\*   create_test_session: with tf.Session() as sess
\*   then self.sess, self.graph are assigned and tf.train.Saver() is called,
\*   and the scopes of create_test_session are left.
\* The graph building, tf.Session() and tf.train.Saver() are collaborator
\* calls: each may raise.
BuildOutcomes == {"ok", "costFail", "sessFail", "saverFail"}

\* mutant: the saver is made but not kept
BuiltContextNoSaver(out, n) ==
    IF out \in {"ok", "saverFail"}
    THEN [ctx EXCEPT !.sess = Session(n), !.graph = Graph(n)]
    ELSE ctx
\* the fields assigned before the attempt ended
BuiltContext(out, n) ==
    CASE out = "ok" ->
            [ctx EXCEPT !.sess = Session(n), !.graph = Graph(n), !.saver = Saver(n)]
      [] out = "saverFail" ->
            [ctx EXCEPT !.sess = Session(n), !.graph = Graph(n)]
      [] OTHER -> ctx

\* `with tf.Session() as sess` was entered iff tf.Session() returned; leaving
\* it (normally or by the exception of Saver()) closes the session
SessionScopeLeft(out, n) ==
    IF out \in {"ok", "saverFail"} THEN {Session(n)} ELSE {}

\* the default stack while the Saver is made, and after the scopes are left
InTestGraph(st, n) == AsDefault(st, Graph(n), Top(st).sess)
InTestSession(st, n) == AsDefault(InTestGraph(st, n), Graph(n), Session(n))
AfterBuild(st, out, n) ==
    IF out \in {"ok", "saverFail"}
    THEN ExitScope(ExitScope(InTestSession(st, n)))
    ELSE ExitScope(InTestGraph(st, n))

\* mutant: the context is built at every use
NeedsBuildAlways == TRUE
\* if self.sess is None
NeedsBuild == ctx.sess = None

BuildTestSession ==
    /\ InLoop("before_train")
    /\ ~IsTrain(cbs[i])
    /\ NeedsBuild
    /\ \E out \in BuildOutcomes :
          /\ builds' = Append(builds, out)
          /\ trace' = Append(trace, Event("build", i, Top(InTestGraph(ambient, nextId)), out))
          /\ ctx' = BuiltContext(out, nextId)
          /\ closed' = closed \cup SessionScopeLeft(out, nextId)
          /\ ambient' = AfterBuild(ambient, out, nextId)
          /\ nextId' = nextId + 1
          /\ IF out = "ok"
             THEN UNCHANGED <<pc, err, i>>
             ELSE Raise("BuildError")
    /\ UNCHANGED <<arg, grp, cbs, ckpt, loaded, restored, tm, phase, calls, logged>>

\* --------------------------------------------------- Callbacks._before_train
BeforeTrainStep ==
    /\ InLoop("before_train")
    /\ IsTrain(cbs[i]) \/ ~NeedsBuild
    /\ \E out \in CallbackOutcomes :
          /\ IF IsTrain(cbs[i])
             THEN /\ trace' = Append(trace, Event("before_train", i, Top(ambient), out))
                  /\ ambient' = ambient
             ELSE /\ trace' = Append(trace,
                        Event("before_train", i, Top(EnterTestContext(ambient)), out))
                  /\ ambient' = AfterBody(EnterTestContext(ambient), out)
          /\ Finish(out)
    /\ UNCHANGED <<arg, grp, cbs, ctx, closed, nextId, ckpt, loaded, restored, tm,
                   builds, phase, calls, logged>>

\* ---------------------------------------------------- Callbacks._after_train
\* mutant: Test callbacks get the test context, as in _before_train
AfterTrainStackSwitched(cb) ==
    IF IsTrain(cb) \/ ctx.sess = None THEN ambient ELSE EnterTestContext(ambient)
\* cb.after_train() is called as is, for both types: the default stack
\* stays what it is
AfterTrainStack(cb) == ambient

AfterTrainStep ==
    /\ InLoop("after_train")
    /\ \E out \in CallbackOutcomes :
          /\ trace' = Append(trace,
                Event("after_train", i, Top(AfterTrainStack(cbs[i])), out))
          /\ Finish(out)
    /\ UNCHANGED <<arg, grp, cbs, ctx, closed, nextId, ambient, ckpt, loaded,
                   restored, tm, builds, phase, calls, logged>>

\* ---------------------------------------------------- Callbacks.trigger_step
\* if isinstance(cb.type, TrainCallbackType): cb.trigger_step()
\* mutant: every callback gets trigger_step
StepsHereAll(cb) == TRUE
StepsHere(cb) == IsTrain(cb)

TriggerStepStep ==
    /\ InLoop("trigger_step")
    /\ IF StepsHere(cbs[i])
       THEN \E out \in CallbackOutcomes :
              /\ trace' = Append(trace, Event("trigger_step", i, Top(ambient), out))
              /\ Finish(out)
       ELSE Continue /\ trace' = trace
    /\ UNCHANGED <<arg, grp, cbs, ctx, closed, nextId, ambient, ckpt, loaded,
                   restored, tm, builds, phase, calls, logged>>

\* -------------------------------------------------------- CallbackTimeLogger
\* add: self.tot += time; self.times.append((name, time))
Add(t, name, d) == [times |-> Append(t.times, <<name, d>>), tot |-> t.tot + d]
\* timed_callback: s = time.time(); yield; self.add(name, time.time() - s).
\* The yield is not inside a try/finally: when the body raises, the
\* exception is re-raised at the yield and the add is never reached (nor
\* is it while the body has not returned).
TimedCallback(t, name, d, raised) == IF raised THEN t ELSE Add(t, name, d)

\* log.  Times are in ticks of a tenth of a second, so that the thresholds
\* of the code (3 sec in total, 1 sec for an entry, the fraction 0.3) are
\* whole numbers and t / self.tot > 0.3 is 10 * t > 3 * self.tot.
MinTotal == 30
MinDuration == 10
\* mutant: one of the two conditions is enough
HeavyEither(t, tot) == 10 * t > 3 * tot \/ t > MinDuration
\* if t / self.tot > 0.3 and t > 1
Heavy(t, tot) == 10 * t > 3 * tot /\ t > MinDuration
\* the loop over self.times that appends to msgs
RECURSIVE Msgs(_, _)
Msgs(times, tot) ==
    IF times = <<>> THEN <<>>
    ELSE IF Heavy(Head(times)[2], tot)
         THEN <<Head(times)>> \o Msgs(Tail(times), tot)
         ELSE Msgs(Tail(times), tot)
\* the lines given to logger.info: none when self.tot < 3, else one line
\* with the total and the joined msgs
Log(t) ==
    IF t.tot < MinTotal THEN <<>>
    ELSE <<[total |-> t.tot, msgs |-> Msgs(t.times, t.tot)]>>

\* ------------------------------------- TestCallbackContext.restore_checkpoint
\* ckpt is None -> RuntimeError; else self.saver.restore(self.sess, path).
\* self.saver is an attribute only after a construction that reached the
\* Saver; saver.restore is a collaborator call and may raise.  What it does
\* on a session whose creating scope has been left is the library's matter:
\* both outcomes are kept.
\* mutant: a missing checkpoint state is not detected
RestoreResultUnchecked(out) ==
    IF ctx.saver = None THEN "AttributeError"
    ELSE IF out = "raise" THEN "RestoreError"
    ELSE "ok"
RestoreResult(out) ==
    IF ckpt = 0 THEN "RuntimeError"
    ELSE IF ctx.saver = None THEN "AttributeError"
    ELSE IF out = "raise" THEN "RestoreError"
    ELSE "ok"

\* mutant: the oldest checkpoint of the directory is loaded
LoadedByOldest(res) == IF res = "ok" THEN 1 ELSE loaded
\* self.saver.restore(self.sess, ckpt.model_checkpoint_path): the newest one
LoadedBy(res) == IF res = "ok" THEN ckpt ELSE loaded

\* mutant: the flag outlives the call (restore once globally)
NeedsRestoreOnceEver == loaded = 0
\* if not test_sess_restored
NeedsRestore == ~restored

RestoreCheckpoint ==
    /\ InLoop("trigger_epoch")
    /\ ~IsTrain(cbs[i])
    /\ NeedsRestore
    /\ \E out \in Outcomes, d \in Durations :
          LET res == RestoreResult(out) IN
          /\ trace' = Append(trace, Event("restore", i, Top(ambient), res))
          /\ tm' = TimedCallback(tm, "restore checkpoint", d, res # "ok")
          /\ loaded' = LoadedBy(res)
          /\ IF res = "ok"
             THEN /\ restored' = TRUE
                  /\ UNCHANGED <<pc, err, i>>
             ELSE /\ UNCHANGED restored
                  /\ Raise(res)
    /\ UNCHANGED <<arg, grp, cbs, ctx, closed, nextId, ambient, ckpt, builds,
                   phase, calls, logged>>

\* --------------------------------------------------- Callbacks._trigger_epoch
\* trigger_epoch_context reads self.graph and self.sess
ContextUsable == ctx.graph # None /\ ctx.sess # None

\* mutant: a ModelSaver writes no checkpoint
WrittenNothing(cb, out) == ckpt
\* a ModelSaver's trigger_epoch writes the next checkpoint
Written(cb, out) == IF cb.saves /\ out = "ok" THEN ckpt + 1 ELSE ckpt

TriggerEpochStep ==
    /\ InLoop("trigger_epoch")
    /\ IsTrain(cbs[i]) \/ ~NeedsRestore
    /\ \E out \in CallbackOutcomes, d \in Durations :
          IF IsTrain(cbs[i])
          THEN /\ trace' = Append(trace, Event("trigger_epoch", i, Top(ambient), out))
               /\ tm' = TimedCallback(tm, cbs[i].name, d, out # "ok")
               /\ ckpt' = Written(cbs[i], out)
               /\ ambient' = ambient
               /\ Finish(out)
          ELSE IF ContextUsable
          THEN /\ trace' = Append(trace,
                     Event("trigger_epoch", i, Top(EnterTestContext(ambient)), out))
               /\ tm' = TimedCallback(tm, cbs[i].name, d, out # "ok")
               /\ ckpt' = Written(cbs[i], out)
               /\ ambient' = AfterBody(EnterTestContext(ambient), out)
               /\ Finish(out)
          ELSE /\ trace' = Append(trace, Event("enter", i, Top(ambient), "AttributeError"))
               /\ UNCHANGED <<tm, ckpt, ambient>>
               /\ Raise("AttributeError")
    /\ UNCHANGED <<arg, grp, cbs, ctx, closed, nextId, loaded, restored, builds,
                   phase, calls, logged>>

\* --------------------------------------------------------- end of the loop
\* mutant: the loop looks for one more callback
LoopDoneOffByOne == i > Len(cbs) + 1
\* `for cb in self.cbs` is exhausted
LoopDone == i > Len(cbs)

\* The loop is exhausted and the method returns; _trigger_epoch calls
\* tm.log() first.
Return ==
    /\ pc \notin {"idle", "hung"}
    /\ LoopDone
    /\ pc' = "idle"
    /\ trace' = IF pc = "trigger_epoch"
                THEN Append(trace, Event("log", 0, Top(ambient), "ok"))
                ELSE trace
    /\ logged' = IF pc = "trigger_epoch" THEN Log(tm) ELSE logged
    /\ UNCHANGED <<arg, grp, cbs, ctx, closed, nextId, ambient, ckpt, loaded, i,
                   restored, tm, err, builds, phase, calls>>

Next ==
    \/ Construct
    \/ RestoreCheckpoint
    \/ TriggerEpochStep
    \/ Return
    \/ BuildTestSession
    \/ BeforeTrainStep
    \/ AfterTrainStep
    \/ TriggerStepStep
    \/ CallBeforeTrain
    \/ CallTriggerStep
    \/ CallTriggerEpoch
    \/ CallAfterTrain

Spec == Init /\ [][Next]_vars

\* --------------------------------------------------------------- progress
\* The lifecycle methods are plain sequential code on one thread: once a
\* call is entered, the interpreter runs the next statement of the loop as
\* long as the statement before it has returned or raised.
LoopStep ==
    \/ RestoreCheckpoint
    \/ TriggerEpochStep
    \/ BuildTestSession
    \/ BeforeTrainStep
    \/ AfterTrainStep
    \/ TriggerStepStep
    \/ Return
SpecFair == Spec /\ WF_vars(LoopStep)

\* ------------------------------------------------- the driver's phase order
\* The trainer calls before_train once, then trigger_step and trigger_epoch
\* any number of times, then after_train once; an exception of a call ends
\* the training, so a call is made only when the one before returned.
Training == phase \in {"before_train", "trigger_step", "trigger_epoch"} /\ err = "none"
OrderedBeforeTrain == phase = "none" /\ Enter("before_train")
OrderedTriggerStep == Training /\ Enter("trigger_step")
OrderedTriggerEpoch == Training /\ Enter("trigger_epoch")
OrderedAfterTrain == Training /\ Enter("after_train")

NextOrdered ==
    \/ Construct
    \/ RestoreCheckpoint
    \/ TriggerEpochStep
    \/ Return
    \/ BuildTestSession
    \/ BeforeTrainStep
    \/ AfterTrainStep
    \/ TriggerStepStep
    \/ OrderedBeforeTrain
    \/ OrderedTriggerStep
    \/ OrderedTriggerEpoch
    \/ OrderedAfterTrain

SpecOrdered == Init /\ [][NextOrdered]_vars

\* ----------------------------------------------- CallbackTimeLogger.log alone
\* The end of a _trigger_epoch over Train callbacks that took long: every
\* callback has returned, its time is in tm, and tm.log() is next.  The
\* times are the ones the thresholds of log tell apart.
LogDurations == {0, 4, 10, 11, 15, 25, 35, 50}

RECURSIVE TimerOf(_)
TimerOf(ds) ==
    IF ds = <<>> THEN EmptyTimer
    ELSE Add(TimerOf(SubSeq(ds, 1, Len(ds) - 1)), TrainCb.name, ds[Len(ds)])

InitLog ==
    \E ds \in SeqsUpTo(LogDurations, MaxCbs) :
        /\ arg = [k \in 1..Len(ds) |-> TrainCb]
        /\ grp = "ok"
        /\ cbs = arg
        /\ ctx = NewContext
        /\ closed = {}
        /\ nextId = 1
        /\ ambient = <<PrimaryFrame>>
        /\ ckpt = 0
        /\ loaded = 0
        /\ pc = "trigger_epoch"
        /\ i = Len(ds) + 1
        /\ restored = FALSE
        /\ tm = TimerOf(ds)
        /\ err = "none"
        /\ trace = [k \in 1..Len(ds) |->
                      [ev |-> "trigger_epoch", idx |-> k,
                       graph |-> PrimaryFrame.graph, sess |-> PrimaryFrame.sess,
                       loaded |-> 0, ckpt |-> 0, out |-> "ok"]]
        /\ builds = <<>>
        /\ phase = "trigger_epoch"
        /\ calls = 1
        /\ logged = <<>>

NextLog == Return

SpecLog == InitLog /\ [][NextLog]_vars

\* ================================================================ properties
\* Reading the trace of the current (or last) call.
Positions == 1..Len(trace)
IsTestCall(e) == e.ev \in {"before_train", "trigger_epoch"} /\ IsTest(cbs[e.idx])
Calls(m) == SelectSeq(trace, LAMBDA e : e.ev = m)
InPrimary(e) == e.graph = PrimaryFrame.graph /\ e.sess = PrimaryFrame.sess
InSecondary(e) ==
    /\ ctx.graph # None /\ ctx.sess # None
    /\ e.graph = ctx.graph /\ e.sess = ctx.sess
    /\ e.graph # PrimaryFrame.graph /\ e.sess # PrimaryFrame.sess
\* construction attempts that assigned self.sess
Storing == {k \in 1..Len(builds) : builds[k] \in {"ok", "saverFail"}}
\* callbacks of the list the loop has called so far in this call
Reached ==
    IF pc = "hung" THEN i
    ELSE IF pc # "idle" THEN i - 1
    ELSE IF err = "none" THEN Len(cbs)
    ELSE IF err = "CallbackError" THEN i
    ELSE i - 1
HasTest == \E k \in 1..Len(cbs) : IsTest(cbs[k])

\* C1: one before_train call invokes before_train on every callback once, in
\* list order; Train callbacks run in the caller's graph and session, Test
\* callbacks in the test graph and session, the construction comes before
\* the first Test callback's before_train (never after one), and a Train
\* callback after a Test callback runs in the caller's context again.
C1_BeforeTrainOrder ==
    phase = "before_train" =>
        LET ev == Calls("before_train") IN
        /\ Len(ev) = Reached
        /\ \A k \in 1..Len(ev) :
              /\ ev[k].idx = k
              /\ IsTrain(cbs[k]) => InPrimary(ev[k])
              /\ IsTest(cbs[k]) => InSecondary(ev[k]) /\ Storing # {}
        /\ \A p \in Positions, q \in Positions :
              (p < q /\ IsTestCall(trace[p])) => trace[q].ev # "build"
        /\ \A p \in Positions :
              (trace[p].ev = "build" /\ p < Len(trace)) =>
                  /\ trace[p].out = "ok"
                  /\ trace[p + 1].ev = "before_train"
                  /\ trace[p + 1].idx = trace[p].idx

\* C1 witness: [Train, Test, Train] went through before_train, with the
\* construction between the first and the second callback.
C1_Witness ==
    /\ phase = "before_train" /\ pc = "idle" /\ err = "none"
    /\ Len(cbs) = 3 /\ IsTrain(cbs[1]) /\ IsTest(cbs[2]) /\ IsTrain(cbs[3])
    /\ Len(trace) = 4 /\ trace[2].ev = "build"
    /\ InPrimary(trace[1]) /\ InSecondary(trace[3]) /\ InPrimary(trace[4])

\* C2 as stated: the construction steps run at most once in the lifetime
\* of the group.
C2_Original == Len(builds) <= 1

\* C2 amended: at most one construction attempt assigns self.sess and no
\* attempt follows it (attempts that raised before the assignment may come
\* before it); the context only goes from unset to set, and the graph,
\* session and saver in use are the ones of that attempt.
C2_BuiltOnce ==
    /\ Cardinality(Storing) <= 1
    /\ \A k \in Storing : k = Len(builds)
    /\ (ctx.sess = None) <=> (Storing = {})
    /\ \A k \in Storing :
          /\ ctx.sess = Session(k) /\ ctx.graph = Graph(k)
          /\ ctx.saver = IF builds[k] = "ok" THEN Saver(k) ELSE None
    /\ \A p \in Positions :
          IsTestCall(trace[p]) => \E k \in Storing :
              trace[p].graph = Graph(k) /\ trace[p].sess = Session(k)

\* C2 witness: a Test callback ran in a later call than the one that built
\* the context, after a second before_train.
C2_Witness ==
    /\ phase = "before_train" /\ Storing # {}
    /\ \E p \in Positions : IsTestCall(trace[p])
    /\ \A p \in Positions : trace[p].ev # "build"

\* C3 failing input: Callbacks([TestCb]).before_train(trainer).
\* C3: whenever a Test callback's before_train or trigger_epoch has run, or
\* restore_checkpoint has loaded a checkpoint, the stored session is open.
C3_SessionStillOpen ==
    (\E p \in Positions :
        IsTestCall(trace[p]) \/ (trace[p].ev = "restore" /\ trace[p].out = "ok"))
    => ctx.sess \notin closed

\* ------------------------------------------------------------ trigger_epoch
Restores == Calls("restore")
FirstTest == CHOOSE k \in 1..Len(cbs) : IsTest(cbs[k]) /\ \A j \in 1..(k - 1) : ~IsTest(cbs[j])
\* ModelSaver calls that returned, strictly between trace positions p and q
SavedBetween(p, q) ==
    Cardinality({r \in Positions : /\ p < r /\ r < q
                                   /\ trace[r].ev = "trigger_epoch"
                                   /\ trace[r].out = "ok"
                                   /\ cbs[trace[r].idx].saves})

\* C4: a trigger_epoch call makes no restore when the list has no Test
\* callback and none before the loop reaches one; it makes exactly one once
\* the loop has reached the first Test callback, placed before that
\* callback's trigger_epoch; every call restores anew (a Test callback never
\* runs on the restore of an earlier call).
C4_RestoreOncePerCall ==
    phase = "trigger_epoch" =>
        /\ Len(Restores) <= 1
        /\ ~HasTest => Len(Restores) = 0
        /\ (HasTest /\ Reached < FirstTest - 1) => Len(Restores) = 0
        /\ (HasTest /\ Reached >= FirstTest) => Len(Restores) = 1
        /\ (HasTest /\ pc = "idle" /\ err = "none") => Len(Restores) = 1
        /\ \A p \in Positions : trace[p].ev = "restore" => trace[p].idx = FirstTest
        /\ \A q \in Positions :
              IsTestCall(trace[q]) =>
                  \E p \in 1..(q - 1) : trace[p].ev = "restore" /\ trace[p].out = "ok"

\* C4 witness: a second trigger_epoch call restored again, before its Test
\* callback ran (the session already held a checkpoint of an earlier call).
C4_Witness ==
    /\ phase = "trigger_epoch" /\ pc = "idle" /\ err = "none"
    /\ \E p \in Positions :
          /\ trace[p].ev = "restore" /\ trace[p].out = "ok" /\ trace[p].loaded # 0
          /\ \E q \in Positions : p < q /\ IsTestCall(trace[q])

\* C5 as stated: whenever a Test callback's trigger_epoch is invoked, the
\* checkpoint loaded in the test session is the newest one at that moment.
C5_Original ==
    phase = "trigger_epoch" =>
        \A q \in Positions : IsTestCall(trace[q]) => trace[q].loaded = trace[q].ckpt

\* C5 amended: whenever a Test callback's trigger_epoch is invoked, the
\* loaded checkpoint is the one that was newest when this call's restore ran;
\* it lags the newest one by exactly the checkpoints that ModelSavers placed
\* between the restore and this callback wrote, so it is the newest one when
\* no checkpoint-producing callback sits between them.
C5_LoadedAtRestore ==
    phase = "trigger_epoch" =>
        \A q \in Positions :
            IsTestCall(trace[q]) =>
                \E p \in 1..(q - 1) :
                    /\ trace[p].ev = "restore" /\ trace[p].out = "ok"
                    /\ trace[p].ckpt # 0
                    /\ trace[q].loaded = trace[p].ckpt
                    /\ trace[q].ckpt = trace[q].loaded + SavedBetween(p, q)

\* C5 witness: a ModelSaver ahead of the Test callback wrote a checkpoint in
\* this call and the Test callback ran on exactly that checkpoint.
C5_Witness ==
    /\ phase = "trigger_epoch"
    /\ \E q \in Positions :
          /\ IsTestCall(trace[q])
          /\ trace[q].loaded = trace[q].ckpt
          /\ \E r \in 1..(q - 1) :
                cbs[trace[r].idx].saves /\ trace[r].out = "ok"
                /\ trace[r].ckpt < trace[q].loaded

\* C6: trigger_step calls trigger_step on exactly the Train callbacks, once
\* each and in list order, all in the caller's context; it neither builds
\* nor restores nor enters the test context.
TrainBefore(k) == {j \in 1..k : IsTrain(cbs[j])}
C6_StepOnlyTrain ==
    phase = "trigger_step" =>
        /\ Len(trace) = Cardinality(TrainBefore(Reached))
        /\ \A p \in Positions :
              /\ trace[p].ev = "trigger_step"
              /\ IsTrain(cbs[trace[p].idx])
              /\ Cardinality(TrainBefore(trace[p].idx)) = p
              /\ InPrimary(trace[p])
        /\ ambient = <<PrimaryFrame>>

\* C6 witness: trigger_step returned on a list with both kinds, having
\* called the Train callbacks around a skipped Test callback.
C6_Witness ==
    /\ phase = "trigger_step" /\ pc = "idle" /\ err = "none"
    /\ Len(cbs) = 3 /\ IsTest(cbs[2]) /\ Len(trace) = 2

\* C7 failing input: Callbacks([TestCb]).trigger_epoch() with no checkpoint
\* (restore_checkpoint raises inside timed_callback('restore checkpoint')),
\* or any callback whose trigger_epoch raises.
\* C7: every timed operation that has ended, by returning or by raising, has
\* its (name, elapsed) entry in the log, and the total is their sum.
Timed ==
    SelectSeq(trace, LAMBDA e : e.ev \in {"trigger_epoch", "restore"} /\ e.out # "stuck")
C7_RecordedOnEveryExit ==
    phase = "trigger_epoch" =>
        /\ Len(tm.times) = Len(Timed)
        /\ \A k \in 1..Len(tm.times) :
              tm.times[k][1] = IF Timed[k].ev = "restore" THEN "restore checkpoint"
                               ELSE cbs[Timed[k].idx].name

\* C8: when a lifecycle call has returned or raised, and between any two
\* callbacks, the default graph and session are the caller's again (all the
\* time, but inside a callback method that never returns).
C8_AmbientRestored == pc # "hung" => ambient = <<PrimaryFrame>>

\* C8 witness: a Test callback raised inside the test context and the call
\* ended with that error.
C8_Witness ==
    /\ pc = "idle" /\ err = "CallbackError" /\ trace # <<>>
    /\ IsTestCall(trace[Len(trace)]) /\ InSecondary(trace[Len(trace)])
    /\ trace[Len(trace)].out = "raise"

\* C9 as stated: a trigger_epoch call that starts when no checkpoint exists,
\* on a list with a Test callback, ends with the missing-checkpoint error
\* and without any Test callback's trigger_epoch (calls that end with an
\* error of another origin, a callback's own or the restore's, set aside).
C9_Original ==
    (/\ phase = "trigger_epoch" /\ pc = "idle" /\ HasTest
     /\ trace # <<>> /\ trace[1].ckpt = 0
     /\ err \notin {"CallbackError", "AttributeError", "RestoreError"})
    => /\ err = "RuntimeError"
       /\ \A q \in Positions : ~IsTestCall(trace[q])

\* C9 amended: when the loop of trigger_epoch reaches its first Test callback
\* and no checkpoint exists at that moment, the call raises the
\* missing-checkpoint error to the driver there: nothing runs after it, no
\* Test callback's trigger_epoch is invoked in the call (one is invoked only
\* after a checkpoint existed), and nothing is loaded.
C9_MissingCheckpoint ==
    phase = "trigger_epoch" =>
        /\ \A p \in Positions :
              (trace[p].ev = "restore" /\ trace[p].ckpt = 0) =>
                  /\ trace[p].out = "RuntimeError"
                  /\ pc = "idle" /\ err = "RuntimeError"
                  /\ p = Len(trace)
                  /\ loaded = trace[p].loaded
                  /\ \A q \in Positions : ~IsTestCall(trace[q])
        /\ \A q \in Positions : IsTestCall(trace[q]) => trace[q].ckpt # 0
        /\ (HasTest /\ Reached >= FirstTest) => Len(Restores) >= 1

\* C9 witness: the call failed at the restore of its first Test callback,
\* after a Train callback had run, with no checkpoint anywhere.
C9_Witness ==
    /\ phase = "trigger_epoch" /\ pc = "idle" /\ err = "RuntimeError"
    /\ Len(trace) = 2 /\ trace[1].ev = "trigger_epoch" /\ trace[2].ev = "restore"
    /\ ckpt = 0

\* C10: a list with a callback of unknown type, at any position, makes the
\* constructor raise ValueError: no list is stored, no test context is made,
\* no callback method is ever called; a list of known types is stored as
\* given with a fresh, unbuilt test context and nothing else changes.
C10_ConstructionChecked ==
    /\ (grp # "none") => ((grp = "failed") <=> (\E k \in 1..Len(arg) : ~KnownType(arg[k])))
    /\ (grp = "failed") =>
          /\ err = "ValueError"
          /\ cbs = <<>> /\ ctx = NoContext
          /\ trace = <<>> /\ pc = "idle" /\ phase = "none"
          /\ builds = <<>> /\ closed = {} /\ loaded = 0
          /\ ambient = <<PrimaryFrame>>
    /\ (grp = "ok" /\ phase = "none") =>
          /\ err = "none"
          /\ cbs = arg /\ ctx = NewContext
          /\ trace = <<>> /\ pc = "idle"
          /\ builds = <<>> /\ closed = {} /\ loaded = 0
          /\ ambient = <<PrimaryFrame>>

\* C10 witness: the constructor raised on a list whose last callback, after
\* two known ones, has an unknown type.
C10_Witness ==
    /\ grp = "failed" /\ Len(arg) = 3
    /\ KnownType(arg[1]) /\ KnownType(arg[2]) /\ ~KnownType(arg[3])

\* ------------------------------------------------------- a callback raises
\* callbacks among the first k that the phase calls at all
Eligible(k) ==
    {j \in 1..k : phase = "trigger_step" => IsTrain(cbs[j])}
\* the raising callback closed the trace, the ones before it returned, and
\* the calls are the eligible callbacks up to it, once each, in list order
RaisedLast ==
    LET ev == Calls(phase) IN
    /\ trace # <<>>
    /\ trace[Len(trace)].ev = phase
    /\ trace[Len(trace)].idx = i
    /\ trace[Len(trace)].out = "raise"
    /\ Len(ev) = Cardinality(Eligible(i))
    /\ \A k \in 1..Len(ev) :
          /\ ev[k].idx \in Eligible(i)
          /\ Cardinality(Eligible(ev[k].idx)) = k
          /\ k < Len(ev) => ev[k].out = "ok"

\* C11 failing input: Callbacks([TrainCb]).trigger_epoch() with TrainCb's
\* trigger_epoch raising.
\* C11: when the k-th callback's method raises, in any phase, the call ends
\* with that error, no later callback is called, the eligible callbacks
\* before it were called once each, the default context is the caller's,
\* and the time of every timed operation, the raising one included, is in
\* the log.
C11_RaiseCleansUp ==
    (pc = "idle" /\ err = "CallbackError") =>
        /\ RaisedLast
        /\ ambient = <<PrimaryFrame>>
        /\ phase = "trigger_epoch" => Len(tm.times) = Len(Timed)

\* what of C11 the code does: everything but the time recording
C11_AllButTimeRecording ==
    (pc = "idle" /\ err = "CallbackError") =>
        /\ RaisedLast
        /\ ambient = <<PrimaryFrame>>
        /\ phase = "trigger_epoch" => Len(tm.times) = Len(Timed) - 1

\* ------------------------------------------------------------------- tm.log
Returned(p) == phase = p /\ pc = "idle" /\ err = "none"
Times(t) == [k \in 1..Len(t.times) |-> t.times[k][2]]

\* C12: log gives no line when the total is below 3 sec; otherwise exactly
\* one line, with the total and with the entries, in order, whose time is
\* more than 0.3 of the total and more than 1 sec (both strictly; possibly
\* none).  Times 2.5 and 0.4 sec give no line; 5 and 1 sec give a line with
\* the first entry only.
C12_LogDigest ==
    Returned("trigger_epoch") =>
        /\ tm.tot < 30 => logged = <<>>
        /\ tm.tot >= 30 =>
              /\ Len(logged) = 1
              /\ logged[1].total = tm.tot
              /\ logged[1].msgs =
                    SelectSeq(tm.times, LAMBDA e : 10 * e[2] > 3 * tm.tot /\ e[2] > 10)
        /\ Times(tm) = <<25, 4>> => logged = <<>>
        /\ Times(tm) = <<50, 10>> =>
              logged = <<[total |-> 60, msgs |-> <<tm.times[1]>>]>>

\* C12 witness: the times 5 sec and 1 sec were logged as one line that lists
\* the first entry and not the second.
C12_Witness ==
    /\ Returned("trigger_epoch")
    /\ Times(tm) = <<50, 10>>
    /\ Len(logged) = 1 /\ logged[1].total = 60 /\ Len(logged[1].msgs) = 1
    /\ logged[1].msgs[1][2] = 50

\* C13: after_train calls after_train on every callback, of either type,
\* once each and in list order, always in the caller's graph and session;
\* the call does nothing else: the test context is neither built nor
\* entered.
C13_AfterTrainPlain ==
    phase = "after_train" =>
        /\ Len(trace) = Reached
        /\ \A p \in Positions :
              /\ trace[p].ev = "after_train"
              /\ trace[p].idx = p
              /\ InPrimary(trace[p])
        /\ ambient = <<PrimaryFrame>>

\* C13 witness: after_train returned on a list with both types while the
\* test context existed; the Test callback ran in the caller's context.
C13_Witness ==
    /\ Returned("after_train") /\ Storing # {}
    /\ \E p \in Positions : IsTest(cbs[trace[p].idx]) /\ InPrimary(trace[p])
    /\ \E p \in Positions : IsTrain(cbs[trace[p].idx])

\* C14: under the driver's phase order, whenever _trigger_epoch calls
\* restore_checkpoint or trigger_epoch_context, the test context is fully
\* built (session, graph and saver are set): neither ever fails on a
\* missing attribute.
Active == ctx.sess # None /\ ctx.graph # None /\ ctx.saver # None
C15_EpochOrder ==
    phase = "trigger_epoch" =>
        LET ev == Calls("trigger_epoch") IN
        /\ Len(ev) = Reached
        /\ \A k \in 1..Len(ev) :
              /\ ev[k].idx = k
              /\ IsTrain(cbs[k]) => InPrimary(ev[k])
              /\ IsTest(cbs[k]) => InSecondary(ev[k])

\* C15 witness: trigger_epoch returned on [Train, Test, Train]: caller's
\* context, test context, caller's context again.
C15_Witness ==
    /\ Returned("trigger_epoch")
    /\ Len(cbs) = 3 /\ IsTrain(cbs[1]) /\ IsTest(cbs[2]) /\ IsTrain(cbs[3])
    /\ LET ev == Calls("trigger_epoch") IN
          /\ Len(ev) = 3
          /\ InPrimary(ev[1]) /\ InSecondary(ev[2]) /\ InPrimary(ev[3])

\* ------------------------------------------------------ the time log of a call
RECURSIVE SumTimes(_)
SumTimes(s) == IF s = <<>> THEN 0 ELSE s[1][2] + SumTimes(Tail(s))
\* the labels a normally completed call leaves in the log
ExpectedNames ==
    IF ~HasTest THEN [k \in 1..Len(cbs) |-> cbs[k].name]
    ELSE [k \in 1..(Len(cbs) + 1) |->
            IF k < FirstTest THEN cbs[k].name
            ELSE IF k = FirstTest THEN "restore checkpoint"
            ELSE cbs[k - 1].name]
\* the timed operations of the current call that returned
Recorded == SelectSeq(Timed, LAMBDA e : e.out = "ok")

\* C16: every trigger_epoch call has a time log of its own: at every point
\* of the call the log holds the timed operations of this call only and the
\* total is the sum of the recorded times; when the call completes normally
\* the log has one entry per callback, labelled with the callback's type
\* name, in list order, and one "restore checkpoint" entry right before
\* the entry of the first Test callback (none without a Test callback), and
\* log has been called exactly once, after the last callback.
C16_FreshTimer ==
    phase = "trigger_epoch" =>
        /\ tm.tot = SumTimes(tm.times)
        /\ Len(tm.times) = Len(Recorded)
        /\ \A k \in 1..Len(tm.times) :
              tm.times[k][1] = IF Recorded[k].ev = "restore" THEN "restore checkpoint"
                               ELSE cbs[Recorded[k].idx].name
        /\ Len(Calls("log")) <= 1
        /\ pc # "idle" => Len(Calls("log")) = 0
        /\ Returned("trigger_epoch") =>
              /\ [k \in 1..Len(tm.times) |-> tm.times[k][1]] = ExpectedNames
              /\ Len(Calls("log")) = 1
              /\ trace[Len(trace)].ev = "log"
              /\ Len(trace) = Len(ExpectedNames) + 1

\* C16 witness: a trigger_epoch call that followed an earlier one (its
\* restore found a checkpoint already loaded) completed on a list with a
\* Test callback, with a non-zero total.
C16_Witness ==
    /\ Returned("trigger_epoch")
    /\ HasTest /\ Len(cbs) >= 2
    /\ Len(tm.times) = Len(cbs) + 1 /\ tm.tot > 0
    /\ Len(Restores) = 1 /\ Restores[1].loaded # 0

\* ------------------------------------------------------------ stuck callbacks
\* the call is inside a callback method that has not returned
Stuck ==
    /\ pc = "hung"
    /\ trace # <<>>
    /\ trace[Len(trace)].out = "stuck" /\ trace[Len(trace)].idx = i
    /\ \A p \in Positions : trace[p].idx <= i

\* C17: there is no timeout: while a callback method has not returned, no
\* later callback of the list is called and the lifecycle call does not
\* return; and a lifecycle call in which every callback method and every
\* collaborator call returns or raises ends, by returning or raising to the
\* driver (so every call ends or stays in one callback method for ever).
C17_StuckBlocksElseEnds ==
    /\ [](pc = "hung" => Stuck)
    /\ [][pc = "hung" => (pc' = "hung" /\ trace' = trace /\ i' = i)]_vars
    /\ (pc \notin {"idle", "hung"}) ~> (pc \in {"idle", "hung"})

\* C17 witness: the first of three callbacks never returned; the other two
\* were not called.
C17_Witness ==
    /\ Stuck /\ Len(cbs) = 3 /\ i = 1 /\ Len(trace) = 1

\* C18 failing input: Callbacks([TestCb]).before_train(trainer) with
\* tf.train.Saver() raising in before_train_context.
\* C18: in every state the session of the test context is set exactly when
\* its graph and its saver are set, also after a construction step raised.
C18_AllOrNothing ==
    (ctx.sess # None) <=> (ctx.graph # None /\ ctx.saver # None)

\* --------------------------------------------- savers ahead of Test callbacks
Savers == {k \in 1..Len(cbs) : cbs[k].saves}
SaversFirst ==
    \A j \in Savers, k \in 1..Len(cbs) : IsTest(cbs[k]) => j < k

\* C19: when every ModelSaver of the list stands before every Test
\* callback, the restore of a trigger_epoch call comes after the
\* trigger_epoch of all the ModelSavers has returned, and every Test
\* callback's trigger_epoch of the call runs on the newest checkpoint, which
\* (when the list has a ModelSaver) was written in this same call.
C19_SaversFirstFresh ==
    (phase = "trigger_epoch" /\ SaversFirst) =>
        /\ \A p \in Positions :
              trace[p].ev = "restore" =>
                  /\ \A j \in Savers : \E r \in 1..(p - 1) :
                        /\ trace[r].ev = "trigger_epoch" /\ trace[r].idx = j
                        /\ trace[r].out = "ok"
                  /\ \A r \in Positions : (p < r /\ trace[r].ev = "trigger_epoch")
                                              => ~cbs[trace[r].idx].saves
        /\ \A q \in Positions :
              IsTestCall(trace[q]) =>
                  /\ trace[q].loaded = trace[q].ckpt
                  /\ Savers # {} =>
                        trace[q].loaded = trace[1].ckpt + Cardinality(Savers)

\* C19 witness: a call that started with an older checkpoint on disk
\* completed on a list with a ModelSaver ahead of a Test callback, and the
\* Test callback ran on the checkpoint written in this call.
C19_Witness ==
    /\ Returned("trigger_epoch")
    /\ SaversFirst /\ Savers # {} /\ HasTest
    /\ trace[1].ckpt >= 1
    /\ \E q \in Positions :
          IsTestCall(trace[q]) /\ trace[q].loaded = trace[1].ckpt + Cardinality(Savers)
====
